---- MODULE Spec2Model ----
(***************************************************************************)
(* A model of the three-card poker bot of src/250102080.py.py:             *)
(*   - the card/hand model (parse_card, is_straight_3, hand_category,      *)
(*     compare_hands_internal) as operators,                               *)
(*   - decide_action and main as a state machine, one action per step of   *)
(*     the code, with Python's exceptions and its binary64 arithmetic.     *)
(* Spec     runs main on a set of standard-input contents.                 *)
(* SpecHand applies the hand operators to hands drawn from a card pool.    *)
(***************************************************************************)
EXTENDS Integers, Sequences, FiniteSets, TLC

VARIABLES
    stdin,          \* the content of standard input (never changes in a run)
    pc,             \* where the run is
    state,          \* main's `state`: the parsed request
    hole,           \* decide_action's locals ...
    table,
    stats,
    n_total_rounds,
    deck,
    trials,         \* opponent hands sampled by the Monte Carlo loop
    wins2,          \* `wins`, counted in half wins (1.0 is 2, 0.5 is 1)
    equity,
    fold_freq,
    ev_call,
    ev_raise,
    fault,          \* the exception raised, "" when none
    action,         \* what decide_action returned / main's `action`
    out,            \* the records written to standard output
    hpc,            \* SpecHand: where the hand evaluation is
    my_cards,       \* SpecHand: the arguments of compare_hands_internal
    opp_cards,
    table_card,
    straight,       \* SpecHand: is_straight_3 of my hand's rank values
    my_rank,        \* SpecHand: hand_category of the two hands
    opp_rank,
    result,         \* SpecHand: compare_hands_internal(my_cards, table_card, opp_cards)
    swapped         \* SpecHand: compare_hands_internal(opp_cards, table_card, my_cards)

mainVars == <<stdin, pc, state, hole, table, stats, n_total_rounds, deck, trials,
              wins2, equity, fold_freq, ev_call, ev_raise, fault, action, out>>
handVars == <<hpc, my_cards, opp_cards, table_card, straight, my_rank, opp_rank,
              result, swapped>>
vars == <<mainVars, handVars>>

-----------------------------------------------------------------------------
(***************************************************************************)
(* Bounds of the model.                                                    *)
(***************************************************************************)
\* opponent_stats carries fold counts 0..MaxFold
MaxFold == 6
\* ... together with no other action or with OtherActions raises
OtherActions == 5
\* SpecHand draws its hands from the first MaxCards cards of CardPool
MaxCards == 8

-----------------------------------------------------------------------------
(***************************************************************************)
(* Python's float: IEEE 754 binary64, round to nearest, ties to even.      *)
(* A float is [s, e, m]: sign s, and the value s * m * 2^e with m a        *)
(* natural number of exactly MantBits bits, or zero (m = <<>>).  Naturals  *)
(* wider than TLC's integers are sequences of limbs, least significant     *)
(* first.  The values of this program stay far from overflow, underflow,   *)
(* infinities and NaN, which are not modelled.                             *)
(***************************************************************************)
MantBits == 53
LimbBits == 7 + 7
LimbBase == 2^LimbBits

RECURSIVE ToBig(_)
ToBig(n) == IF n = 0 THEN <<>> ELSE <<n % LimbBase>> \o ToBig(n \div LimbBase)

RECURSIVE BigNorm(_)
BigNorm(a) == IF a = <<>> THEN a
              ELSE IF a[Len(a)] = 0 THEN BigNorm(SubSeq(a, 1, Len(a) - 1)) ELSE a

Limb(a, i) == IF i <= Len(a) THEN a[i] ELSE 0

\* limbs of any size (negative ones too, the total being >= 0) brought below LimbBase
RECURSIVE CarryFrom(_, _, _)
CarryFrom(c, i, carry) ==
    IF i > Len(c)
    THEN IF carry = 0 THEN <<>>
         ELSE <<carry % LimbBase>> \o CarryFrom(c, i, carry \div LimbBase)
    ELSE LET t == c[i] + carry
         IN  <<t % LimbBase>> \o CarryFrom(c, i + 1, t \div LimbBase)
Carry(c) == CarryFrom(c, 1, 0)

Max2(x, y) == IF x < y THEN y ELSE x

BigAdd(a, b) == Carry([i \in 1..Max2(Len(a), Len(b)) |-> Limb(a, i) + Limb(b, i)])

\* a - b, for a >= b
BigSub(a, b) == BigNorm(Carry([i \in 1..Len(a) |-> a[i] - Limb(b, i)]))

RECURSIVE BigCmpFrom(_, _, _)
BigCmpFrom(a, b, i) ==
    IF i = 0 THEN 0
    ELSE IF a[i] > b[i] THEN 1
    ELSE IF a[i] < b[i] THEN -1
    ELSE BigCmpFrom(a, b, i - 1)
\* -1, 0, 1 as a < b, a = b, a > b
BigCmp(a, b) == IF Len(a) > Len(b) THEN 1
                ELSE IF Len(a) < Len(b) THEN -1
                ELSE BigCmpFrom(a, b, Len(a))

\* a * k, for 0 <= k < LimbBase
BigMulInt(a, k) == IF k = 0 THEN <<>> ELSE Carry([i \in 1..Len(a) |-> a[i] * k])

Prod(a, b, i, k) ==
    IF i <= Len(a) /\ k - i >= 1 /\ k - i <= Len(b) THEN a[i] * b[k - i] ELSE 0

\* a * b, for a and b of at most four limbs (two mantissas)
BigMul(a, b) ==
    IF a = <<>> \/ b = <<>> THEN <<>>
    ELSE Carry([k \in 1..(Len(a) + Len(b) - 1) |->
                  Prod(a, b, 1, k + 1) + Prod(a, b, 2, k + 1)
                + Prod(a, b, 3, k + 1) + Prod(a, b, 4, k + 1)])

BigBitLenTop(t) == CHOOSE k \in 1..LimbBits : 2^(k - 1) <= t /\ t < 2^k
BigBitLen(a) ==
    IF a = <<>> THEN 0 ELSE (Len(a) - 1) * LimbBits + BigBitLenTop(a[Len(a)])

\* a * 2^bits
BigShl(a, bits) ==
    LET q == bits \div LimbBits
        p == 2^(bits % LimbBits)
    IN  IF a = <<>> THEN a
        ELSE Carry([i \in 1..(q + Len(a)) |-> IF i <= q THEN 0 ELSE a[i - q] * p])

\* floor(a / 2^bits)
BigShr(a, bits) ==
    LET q == bits \div LimbBits
        r == bits % LimbBits
        n == Len(a) - q
    IN  IF n <= 0 THEN <<>>
        ELSE BigNorm([i \in 1..n |->
                 (a[q + i] \div 2^r) + (Limb(a, q + i + 1) % 2^r) * 2^(LimbBits - r)])

\* bit i of a (bit 0 is the least significant)
BigBit(a, i) == (Limb(a, (i \div LimbBits) + 1) \div 2^(i % LimbBits)) % 2

\* the low `bits` bits of a are all zero
BigLowZero(a, bits) ==
    /\ \A i \in 1..(bits \div LimbBits) : Limb(a, i) = 0
    /\ Limb(a, (bits \div LimbBits) + 1) % 2^(bits % LimbBits) = 0

\* <<floor(a / n), a mod n>>, for 0 < n < LimbBase
RECURSIVE BigDivIntFrom(_, _, _, _)
BigDivIntFrom(a, n, i, rem) ==
    IF i = 0 THEN <<<<>>, rem>>
    ELSE LET cur  == rem * LimbBase + a[i]
             rest == BigDivIntFrom(a, n, i - 1, cur % n)
         IN  <<rest[1] \o <<cur \div n>>, rest[2]>>
BigDivInt(a, n) ==
    LET r == BigDivIntFrom(a, n, Len(a), 0) IN <<BigNorm(r[1]), r[2]>>

FZero == [s |-> 1, e |-> 0, m |-> <<>>]

\* the float nearest to s * M * 2^e, ties to the even mantissa
RoundBig(s, M, e) ==
    LET L == BigBitLen(M)
    IN  IF L = 0 THEN FZero
        ELSE IF L <= MantBits
        THEN [s |-> s, e |-> e - (MantBits - L), m |-> BigShl(M, MantBits - L)]
        ELSE LET d  == L - MantBits
                 Q  == BigShr(M, d)
                 up == /\ BigBit(M, d - 1) = 1
                       /\ (~BigLowZero(M, d - 1) \/ Q[1] % 2 = 1)
                 Q2 == IF up THEN BigAdd(Q, <<1>>) ELSE Q
             IN  IF BigBitLen(Q2) > MantBits
                 THEN [s |-> s, e |-> e + d + 1, m |-> BigShr(Q2, 1)]
                 ELSE [s |-> s, e |-> e + d, m |-> Q2]

Abs(x) == IF x < 0 THEN 0 - x ELSE x
Sgn(x) == IF x < 0 THEN -1 ELSE 1

\* a / n for integers a and 0 < n < LimbBase: the float nearest to the quotient
\* (Python's int / int, float / int of exact values, and its decimal literals).
\* The quotient is taken to 5 limbs below the point; a last bit set when the
\* division left a remainder keeps the rounding exact.
FDivInt(a, n) ==
    IF a = 0 THEN FZero
    ELSE LET qr == BigDivInt(BigShl(ToBig(Abs(a)), 5 * LimbBits), n)
             M  == BigAdd(BigMulInt(qr[1], 2), IF qr[2] = 0 THEN <<>> ELSE <<1>>)
         IN  RoundBig(Sgn(a), M, 0 - 5 * LimbBits - 1)

FInt(a) == FDivInt(a, 1)
FNeg(x) == [x EXCEPT !.s = 0 - x.s]

\* x * y
FMul(x, y) == IF x.m = <<>> \/ y.m = <<>> THEN FZero
              ELSE RoundBig(x.s * y.s, BigMul(x.m, y.m), x.e + y.e)

\* x + y; an operand more than MantBits + 2 binary places below the other is
\* less than a quarter of its last place and leaves it unchanged
FAdd(x, y) ==
    IF x.m = <<>> THEN y
    ELSE IF y.m = <<>> THEN x
    ELSE IF x.e - y.e > MantBits + 2 THEN x
    ELSE IF y.e - x.e > MantBits + 2 THEN y
    ELSE LET e  == IF x.e < y.e THEN x.e ELSE y.e
             mx == BigShl(x.m, x.e - e)
             my == BigShl(y.m, y.e - e)
             c  == BigCmp(mx, my)
         IN  IF x.s = y.s THEN RoundBig(x.s, BigAdd(mx, my), e)
             ELSE IF c = 0 THEN FZero
             ELSE IF c > 0 THEN RoundBig(x.s, BigSub(mx, my), e)
             ELSE RoundBig(y.s, BigSub(my, mx), e)

FSub(x, y) == FAdd(x, FNeg(y))

\* x < y
FLess(x, y) ==
    LET mag == IF x.e > y.e THEN 1
               ELSE IF x.e < y.e THEN -1
               ELSE BigCmp(x.m, y.m)
    IN  IF x.m = <<>> THEN y.m # <<>> /\ y.s = 1
        ELSE IF y.m = <<>> THEN x.s = -1
        ELSE IF x.s # y.s THEN x.s = -1
        ELSE IF x.s = 1 THEN mag < 0 ELSE mag > 0

\* Python's min(x, y) and max(x, y) of two floats
FMin(x, y) == IF FLess(y, x) THEN y ELSE x
FMax(x, y) == IF FLess(x, y) THEN y ELSE x

-----------------------------------------------------------------------------
(***************************************************************************)
(* Cards and hands.  A card token is the sequence of its characters,       *)
(* <<"A", "H">> for "AH".  An operator that can raise returns              *)
(* [err, val]: err is "" and val the value, or err names the exception.    *)
(* compare_hands_internal's 1.0, 0.5, 0.0 are counted in halves: 2, 1, 0.  *)
(***************************************************************************)
Ok(v) == [err |-> "", val |-> v]
Raise(e, v) == [err |-> e, val |-> v]

RANKS == <<"2", "3", "4", "5", "6", "7", "8", "9", "T", "J", "Q", "K", "A">>
SUITS == <<"H", "D", "S", "C">>
RANK_VALUE == [r \in {RANKS[i] : i \in 1..Len(RANKS)} |->
                  (CHOOSE i \in 1..Len(RANKS) : RANKS[i] = r) + 1]

\* RANK_VALUE[card_str[0]], card_str[1]
parse_card(card_str) ==
    IF Len(card_str) < 1 THEN Raise("IndexError", <<0, "">>)
    ELSE IF card_str[1] \notin DOMAIN RANK_VALUE THEN Raise("KeyError", <<0, "">>)
    ELSE IF Len(card_str) < 2 THEN Raise("IndexError", <<0, "">>)
    ELSE Ok(<<RANK_VALUE[card_str[1]], card_str[2]>>)

RECURSIVE Insert(_, _)
Insert(x, t) == IF t = <<>> THEN <<x>>
                ELSE IF x <= t[1] THEN <<x>> \o t
                ELSE <<t[1]>> \o Insert(x, Tail(t))
RECURSIVE sorted(_)
sorted(l) == IF l = <<>> THEN <<>> ELSE Insert(l[1], sorted(Tail(l)))
sorted_reverse(l) == LET r == sorted(l) IN [i \in 1..Len(r) |-> r[Len(r) + 1 - i]]

SetOf(l) == {l[i] : i \in 1..Len(l)}

\* is_straight_3 without its wheel case
is_straight_3_no_wheel(rank_values) ==
    LET r == sorted(rank_values)
    IN  IF Len(r) < 2 THEN Raise("IndexError", <<FALSE, 0>>)
        ELSE IF r[1] + 1 = r[2] /\ Len(r) < 3 THEN Raise("IndexError", <<FALSE, 0>>)
        ELSE IF r[1] + 1 = r[2] /\ r[2] + 1 = r[3] THEN Ok(<<TRUE, r[3]>>)
        ELSE Ok(<<FALSE, 0>>)

\* `and` evaluates r[2] only when r[0] + 1 == r[1]
is_straight_3(rank_values) ==
    LET r == sorted(rank_values)
    IN  IF Len(r) < 2 THEN Raise("IndexError", <<FALSE, 0>>)
        ELSE IF r[1] + 1 = r[2] /\ Len(r) < 3 THEN Raise("IndexError", <<FALSE, 0>>)
        ELSE IF r[1] + 1 = r[2] /\ r[2] + 1 = r[3] THEN Ok(<<TRUE, r[3]>>)
        ELSE IF SetOf(r) = {14, 2, 3} THEN Ok(<<TRUE, 3>>)
        ELSE Ok(<<FALSE, 0>>)

\* the first exception of parsing the cards in order, "" when none
RECURSIVE FirstParseError(_, _)
FirstParseError(cards, i) ==
    IF i > Len(cards) THEN ""
    ELSE IF parse_card(cards[i]).err # "" THEN parse_card(cards[i]).err
    ELSE FirstParseError(cards, i + 1)

CountOf(rank_values, v) == Cardinality({i \in 1..Len(rank_values) : rank_values[i] = v})

hand_category(hole_cards, table_c) ==
    LET cards == hole_cards \o <<table_c>>
        perr  == FirstParseError(cards, 1)
        rank_values == [i \in 1..Len(cards) |-> parse_card(cards[i]).val[1]]
        suits == [i \in 1..Len(cards) |-> parse_card(cards[i]).val[2]]
        flush == Cardinality(SetOf(suits)) = 1
        st    == is_straight_3(rank_values)
        trips == \E v \in SetOf(rank_values) : CountOf(rank_values, v) = 3
        pair  == \E v \in SetOf(rank_values) : CountOf(rank_values, v) = 2
    IN  IF perr # "" THEN Raise(perr, -1)
        ELSE IF st.err # "" THEN Raise(st.err, -1)
        ELSE IF st.val[1] /\ flush THEN Ok(5)
        ELSE IF trips THEN Ok(4)
        ELSE IF st.val[1] THEN Ok(3)
        ELSE IF flush THEN Ok(2)
        ELSE IF pair THEN Ok(1)
        ELSE Ok(0)

\* for m, o in zip(my_vals, opp_vals): the first position that differs decides
RECURSIVE ZipCompare(_, _, _)
ZipCompare(m, o, i) ==
    IF i > Len(m) \/ i > Len(o) THEN 1
    ELSE IF m[i] > o[i] THEN 2
    ELSE IF o[i] > m[i] THEN 0
    ELSE ZipCompare(m, o, i + 1)

\* the tie-break loop with >= for >
ZipCompareGe(m, o, i) ==
    IF i > Len(m) \/ i > Len(o) THEN 1
    ELSE IF m[i] >= o[i] THEN 2
    ELSE 0

RankValues(cards) == [i \in 1..Len(cards) |-> parse_card(cards[i]).val[1]]

\* compare_hands_internal without its "Special A-2-3 handling"
compare_hands_no_wheel(my, table_c, opp) ==
    LET mr == hand_category(my, table_c)
        or == hand_category(opp, table_c)
    IN  IF mr.err # "" THEN Raise(mr.err, -1)
        ELSE IF or.err # "" THEN Raise(or.err, -1)
        ELSE IF mr.val > or.val THEN Ok(2)
        ELSE IF or.val > mr.val THEN Ok(0)
        ELSE Ok(ZipCompare(sorted_reverse(RankValues(my \o <<table_c>>)),
                           sorted_reverse(RankValues(opp \o <<table_c>>)), 1))

\* compare_hands_internal with `if m >= o: return 1.0` in the tie-break loop
compare_hands_ge(my, table_c, opp) ==
    LET mr == hand_category(my, table_c)
        or == hand_category(opp, table_c)
        my_vals0  == sorted_reverse(RankValues(my \o <<table_c>>))
        opp_vals0 == sorted_reverse(RankValues(opp \o <<table_c>>))
        wheel     == mr.val = 5 \/ mr.val = 3
        my_vals   == IF wheel /\ SetOf(my_vals0) = {14, 3, 2} THEN <<3, 2, 1>> ELSE my_vals0
        opp_vals  == IF wheel /\ SetOf(opp_vals0) = {14, 3, 2} THEN <<3, 2, 1>> ELSE opp_vals0
    IN  IF mr.err # "" THEN Raise(mr.err, -1)
        ELSE IF or.err # "" THEN Raise(or.err, -1)
        ELSE IF mr.val > or.val THEN Ok(2)
        ELSE IF or.val > mr.val THEN Ok(0)
        ELSE Ok(ZipCompareGe(my_vals, opp_vals, 1))

compare_hands_internal(my, table_c, opp) ==
    LET mr == hand_category(my, table_c)
        or == hand_category(opp, table_c)
        my_vals0  == sorted_reverse(RankValues(my \o <<table_c>>))
        opp_vals0 == sorted_reverse(RankValues(opp \o <<table_c>>))
        wheel     == mr.val = 5 \/ mr.val = 3
        my_vals   == IF wheel /\ SetOf(my_vals0) = {14, 3, 2} THEN <<3, 2, 1>> ELSE my_vals0
        opp_vals  == IF wheel /\ SetOf(opp_vals0) = {14, 3, 2} THEN <<3, 2, 1>> ELSE opp_vals0
    IN  IF mr.err # "" THEN Raise(mr.err, -1)
        ELSE IF or.err # "" THEN Raise(or.err, -1)
        ELSE IF mr.val > or.val THEN Ok(2)
        ELSE IF or.val > mr.val THEN Ok(0)
        ELSE Ok(ZipCompare(my_vals, opp_vals, 1))

-----------------------------------------------------------------------------
(***************************************************************************)
(* The request: what json.loads can give main.  Each field has its own     *)
(* shape; tag "absent" is a key the record does not have.                  *)
(***************************************************************************)
HoleAbsent == [tag |-> "absent", items |-> <<>>]
HoleNull == [tag |-> "null", items |-> <<>>]
\* a number that is not zero, where a list is expected
HoleInt == [tag |-> "int", items |-> <<>>]
HoleList(items) == [tag |-> "list", items |-> items]

TableAbsent == [tag |-> "absent", chars |-> <<>>]
TableNull == [tag |-> "null", chars |-> <<>>]
TableStr(chars) == [tag |-> "str", chars |-> chars]

\* a count is <<>> (the key is absent) or <<n>>
StatsAbsent == [tag |-> "absent", fold |-> <<>>, call |-> <<>>, raise |-> <<>>]
\* a JSON list where a mapping is expected
StatsList == [tag |-> "list", fold |-> <<>>, call |-> <<>>, raise |-> <<>>]
StatsDict(f, c, r) == [tag |-> "dict", fold |-> f, call |-> c, raise |-> r]

Doc(h, t, s, r) == [isdict |-> TRUE, your_hole |-> h, table_card |-> t,
                    opponent_stats |-> s, total_rounds |-> r]
\* {}
EmptyRecord == Doc(HoleAbsent, TableAbsent, StatsAbsent, <<>>)
\* valid JSON that is not a record: a list, a number, a string, null
NonRecord == [EmptyRecord EXCEPT !.isdict = FALSE]

\* the deck in the order lines 92-94 build it
FullDeck == [i \in 1..(Len(RANKS) * Len(SUITS)) |->
                <<RANKS[((i - 1) \div Len(SUITS)) + 1], SUITS[((i - 1) % Len(SUITS)) + 1]>>]

HoleShapes ==
    { HoleAbsent, HoleNull, HoleInt, HoleList(<<>>),
      HoleList(<< <<"K", "D">> >>),                  \* one card, next to the table's rank
      HoleList(<< <<"2", "D">> >>),                  \* one card, not next to it
      HoleList(<< <<"X", "H">>, <<"7", "D">> >>),    \* no such rank
      HoleList(<< <<"K">>, <<"7", "D">> >>),         \* a token of one character
      HoleList(FullDeck),                            \* leaves no card to sample
      HoleList(<< <<"K", "D">>, <<"7", "S">> >>),
      HoleList(<< <<"A", "H">>, <<"K", "H">> >>),
      HoleList(<< <<"2", "D">>, <<"3", "S">> >>) }

TableShapes ==
    { TableAbsent, TableNull, TableStr(<<>>), TableStr(<<"Q", "H">>),
      TableStr(<<"Q">>), TableStr(<<"1", "H">>) }

StatsValues ==
    {StatsDict(<<f>>, <<>>, r) : f \in 0..MaxFold, r \in {<<>>, <<OtherActions>>}}
    \cup {StatsAbsent, StatsDict(<<100>>, <<0>>, <<0>>), StatsDict(<<>>, <<MaxFold>>, <<>>)}

\* state.get(key, default)
Get(v, default) == IF v.tag = "absent" THEN default ELSE v
\* stats.get(key, 0)
GetCount(c) == IF c = <<>> THEN 0 ELSE c[1]

\* Python's truth value of `hole` and `table`
HoleTruthy(h) == IF h.tag = "list" THEN h.items # <<>> ELSE h.tag = "int"
TableTruthy(t) == t.tag = "str" /\ t.chars # <<>>

Documents ==
    {NonRecord}
    \cup {Doc(h, t, StatsAbsent, <<>>) : h \in HoleShapes, t \in TableShapes}
    \cup {d \in {Doc(h, t, s, <<r>>) : h \in HoleShapes, t \in TableShapes,
                    s \in {StatsList, StatsDict(<<100>>, <<0>>, <<0>>)}, r \in {0, 500}} :
             ~HoleTruthy(Get(d.your_hole, HoleList(<<>>)))
             \/ ~TableTruthy(Get(d.table_card, TableStr(<<>>)))}
    \cup {Doc(HoleList(<< <<"K", "D">>, <<"7", "S">> >>), TableStr(<<"Q", "H">>), s, <<>>) :
             s \in StatsValues \cup {StatsList}}

\* what standard input can hold
Inputs ==
    {[kind |-> k, doc |-> EmptyRecord] : k \in {"empty", "not_json", "undecodable"}}
    \cup {[kind |-> "json", doc |-> d] : d \in Documents}

-----------------------------------------------------------------------------
(***************************************************************************)
(* decide_action and main.                                                 *)
(***************************************************************************)
sims == 800

F035 == FDivInt(35, 100)
F030 == FDivInt(30, 100)
F005 == FDivInt(5, 100)
F095 == FDivInt(95, 100)
F010 == FDivInt(10, 100)
F1 == FInt(1)
F2 == FInt(2)
F3 == FInt(3)
FM1 == FInt(-1)
FM2 == FInt(-2)
FM3 == FInt(-3)

Actions == {"FOLD", "CALL", "RAISE"}

\* an exception is raised inside decide_action's try
Throw(e) == /\ fault' = e
            /\ pc' = "except"
            /\ UNCHANGED action

\* decide_action returns a
Return(a) == /\ action' = a
             /\ pc' = "returned"
             /\ UNCHANGED fault

\* raw = sys.stdin.read().strip(); state = json.loads(raw) if raw else {},
\* {} when json.loads raises.  Input that the stream's encoding cannot decode
\* makes read() raise UnicodeDecodeError under the strict error handler (the
\* default of a UTF-8 locale), outside any try; under surrogateescape (the C
\* and POSIX locales) it is read as text that is not JSON.
ReadStdin ==
    /\ pc = "main"
    /\ \/ /\ stdin.kind = "undecodable"
          /\ pc' = "crashed"
          /\ fault' = "UnicodeDecodeError"
          /\ UNCHANGED state
       \/ /\ pc' = "decide"
          /\ state' = IF stdin.kind = "json" THEN stdin.doc ELSE EmptyRecord
          /\ UNCHANGED fault
    /\ UNCHANGED handVars
    /\ UNCHANGED <<stdin, hole, table, stats, n_total_rounds, deck, trials, wins2,
                   equity, fold_freq, ev_call, ev_raise, action, out>>

\* lines 79-84: the four state.get calls
GetFields ==
    /\ pc = "decide"
    /\ IF ~state.isdict
       THEN /\ Throw("AttributeError")
            /\ UNCHANGED <<hole, table, stats, n_total_rounds>>
       ELSE /\ hole' = Get(state.your_hole, HoleList(<<>>))
            /\ table' = Get(state.table_card, TableStr(<<>>))
            /\ stats' = Get(state.opponent_stats, StatsDict(<<>>, <<>>, <<>>))
            /\ n_total_rounds' = IF state.total_rounds = <<>> THEN 1001
                                 ELSE state.total_rounds[1]
            /\ pc' = "validate"
            /\ UNCHANGED <<fault, action>>
    /\ UNCHANGED handVars
    /\ UNCHANGED <<stdin, state, deck, trials, wins2, equity, fold_freq, ev_call,
                   ev_raise, out>>

\* the guard of line 86 with `not table` left out
NeedsFoldHoleOnly(h, t) == ~HoleTruthy(h)

\* line 86: not hole or not table
NeedsFold(h, t) == ~HoleTruthy(h) \/ ~TableTruthy(t)

\* lines 86-87
Validate ==
    /\ pc = "validate"
    /\ IF NeedsFold(hole, table)
       THEN Return("FOLD")
       ELSE pc' = "build_deck" /\ UNCHANGED <<fault, action>>
    /\ UNCHANGED handVars
    /\ UNCHANGED <<stdin, state, hole, table, stats, n_total_rounds, deck, trials,
                   wins2, equity, fold_freq, ev_call, ev_raise, out>>

\* lines 91-96; after deck = [], `c not in hole` raises TypeError when hole is
\* a number
BuildDeck ==
    /\ pc = "build_deck"
    /\ IF hole.tag # "list"
       THEN Throw("TypeError") /\ deck' = [built |-> TRUE, cards |-> <<>>]
       ELSE /\ deck' = [built |-> TRUE,
                        cards |-> SelectSeq(FullDeck,
                                     LAMBDA c : c \notin SetOf(hole.items) /\ c # table.chars)]
            /\ pc' = "monte_carlo"
            /\ UNCHANGED <<fault, action>>
    /\ UNCHANGED handVars
    /\ UNCHANGED <<stdin, state, hole, table, stats, n_total_rounds, trials, wins2,
                   equity, fold_freq, ev_call, ev_raise, out>>

\* random.sample(deck, 2): two cards at different places of the deck
Sample2(d) == {<<d[i], d[j]>> : i \in 1..Len(d), j \in 1..Len(d)} \ {<<d[i], d[i]>> : i \in 1..Len(d)}

\* what one trial can give: compare_hands_internal on each possible sample
TrialOutcomes(h, t, d) == {compare_hands_internal(h, t, o) : o \in Sample2(d)}

MinOf(S) == CHOOSE x \in S : \A y \in S : x <= y
MaxOf(S) == CHOOSE x \in S : \A y \in S : y <= x

\* the sums of n values of vals (a subset of {0, 1, 2}): every sum between
\* n * min and n * max, but only the even ones when vals is {0, 2}
WinsAfter(n, vals) ==
    {w \in (n * MinOf(vals))..(n * MaxOf(vals)) :
        1 \in vals \/ Cardinality(vals) = 1 \/ w % 2 = 0}

\* lines 98-105: the trials are independent draws, so the loop ends with any sum
\* of sims trial results, or with the first exception of a trial
MonteCarlo ==
    /\ pc = "monte_carlo"
    /\ IF Len(deck.cards) < 2
       THEN Throw("ValueError") /\ UNCHANGED <<trials, wins2, equity>>
       ELSE LET outs == TrialOutcomes(hole.items, table.chars, deck.cards)
                vals == {o.val : o \in {x \in outs : x.err = ""}}
            IN  \/ /\ \E o \in outs : o.err # "" /\ Throw(o.err)
                   /\ trials' \in (IF vals = {} THEN {1} ELSE 1..sims)
                   /\ UNCHANGED <<wins2, equity>>
                \/ /\ vals # {}
                   /\ \E w \in WinsAfter(sims, vals) :
                         /\ wins2' = w
                         /\ equity' = FDivInt(w, 2 * sims)
                   /\ trials' = sims
                   /\ pc' = "trash_filter"
                   /\ UNCHANGED <<fault, action>>
    /\ UNCHANGED handVars
    /\ UNCHANGED <<stdin, state, hole, table, stats, n_total_rounds, deck,
                   fold_freq, ev_call, ev_raise, out>>

\* the trash filter with 0.30 for 0.35
IsTrashLow(e) == FLess(e, F030)

\* line 110: equity < 0.35
IsTrash(e) == FLess(e, F035)

\* lines 110-111
TrashFilter ==
    /\ pc = "trash_filter"
    /\ IF IsTrash(equity)
       THEN Return("FOLD")
       ELSE pc' = "analyze" /\ UNCHANGED <<fault, action>>
    /\ UNCHANGED handVars
    /\ UNCHANGED <<stdin, state, hole, table, stats, n_total_rounds, deck, trials,
                   wins2, equity, fold_freq, ev_call, ev_raise, out>>

\* lines 117-119
FoldFreq(n_fold, n_actions) ==
    IF n_actions > 5
    THEN FMax(F005, FMin(F095, FDivInt(n_fold, n_actions)))
    ELSE F030

\* lines 114-119; stats.get raises AttributeError when stats is no mapping
AnalyzeOpponent ==
    /\ pc = "analyze"
    /\ IF stats.tag # "dict"
       THEN Throw("AttributeError") /\ UNCHANGED fold_freq
       ELSE LET n_fold == GetCount(stats.fold)
                n_actions == n_fold + GetCount(stats.call) + GetCount(stats.raise)
            IN  /\ fold_freq' = FoldFreq(n_fold, n_actions)
                /\ pc' = "ev"
                /\ UNCHANGED <<fault, action>>
    /\ UNCHANGED handVars
    /\ UNCHANGED <<stdin, state, hole, table, stats, n_total_rounds, deck, trials,
                   wins2, equity, ev_call, ev_raise, out>>

\* lines 126-127 and 130-131 at scale k (2.0 and 3.0):
\* (fold_freq * k) + ((1 - fold_freq) * ((equity * k) + ((1 - equity) * -k)))
EV(e, f, k) ==
    LET showdown == FAdd(FMul(e, FInt(k)), FMul(FSub(F1, e), FInt(0 - k)))
    IN  FAdd(FMul(f, FInt(k)), FMul(FSub(F1, f), showdown))

\* lines 122-131
ComputeEV ==
    /\ pc = "ev"
    /\ ev_call' = EV(equity, fold_freq, 2)
    /\ ev_raise' = EV(equity, fold_freq, 3)
    /\ pc' = "decision"
    /\ UNCHANGED handVars
    /\ UNCHANGED <<stdin, state, hole, table, stats, n_total_rounds, deck, trials,
                   wins2, equity, fold_freq, fault, action, out>>

\* the final decision asking ev_call for a margin of 1.0 over ev_fold
ChooseWideMargin(evc, evr) ==
    IF FLess(FAdd(evc, F010), evr) /\ FLess(FM1, evr) THEN "RAISE"
    ELSE IF FLess(FAdd(FM1, F1), evc) THEN "CALL"
    ELSE "FOLD"

\* the final decision comparing ev_raise with ev_fold alone
ChooseRaiseOverFold(evc, evr) ==
    IF FLess(FM1, evr) THEN "RAISE"
    ELSE IF FLess(FAdd(FM1, F010), evc) THEN "CALL"
    ELSE "FOLD"

\* lines 135-141, with ev_fold = -1.0
Choose(evc, evr) ==
    IF FLess(FAdd(evc, F010), evr) /\ FLess(FM1, evr) THEN "RAISE"
    ELSE IF FLess(FAdd(FM1, F010), evc) THEN "CALL"
    ELSE "FOLD"

FinalDecision ==
    /\ pc = "decision"
    /\ Return(Choose(ev_call, ev_raise))
    /\ UNCHANGED handVars
    /\ UNCHANGED <<stdin, state, hole, table, stats, n_total_rounds, deck, trials,
                   wins2, equity, fold_freq, ev_call, ev_raise, out>>

\* a handler that catches KeyError alone
CaughtKeyErrorOnly(e) == e = "KeyError"

\* line 143: `except Exception` catches every exception a step can raise
Caught(e) == e \in {"AttributeError", "TypeError", "ValueError", "KeyError", "IndexError"}

\* lines 143-144; an exception the handler does not catch ends main
Except ==
    /\ pc = "except"
    /\ IF Caught(fault)
       THEN Return("FOLD")
       ELSE pc' = "crashed" /\ UNCHANGED <<fault, action>>
    /\ UNCHANGED handVars
    /\ UNCHANGED <<stdin, state, hole, table, stats, n_total_rounds, deck, trials,
                   wins2, equity, fold_freq, ev_call, ev_raise, out>>

\* lines 156-160
WriteOutput ==
    /\ pc = "returned"
    /\ action' = IF action \notin Actions THEN "CALL" ELSE action
    /\ out' = Append(out, [action |-> action'])
    /\ pc' = "done"
    /\ UNCHANGED handVars
    /\ UNCHANGED <<stdin, state, hole, table, stats, n_total_rounds, deck, trials,
                   wins2, equity, fold_freq, ev_call, ev_raise, fault>>

HandIdle ==
    /\ hpc = "off"
    /\ my_cards = <<>>
    /\ opp_cards = <<>>
    /\ table_card = <<>>
    /\ straight = <<FALSE, 0>>
    /\ my_rank = -1
    /\ opp_rank = -1
    /\ result = -1
    /\ swapped = -1

MainStart(p) ==
    /\ pc = p
    /\ state = EmptyRecord
    /\ hole = HoleList(<<>>)
    /\ table = TableStr(<<>>)
    /\ stats = StatsDict(<<>>, <<>>, <<>>)
    /\ n_total_rounds = 0
    /\ deck = [built |-> FALSE, cards |-> <<>>]
    /\ trials = 0
    /\ wins2 = 0
    /\ equity = FZero
    /\ fold_freq = FZero
    /\ ev_call = FZero
    /\ ev_raise = FZero
    /\ fault = ""
    /\ action = ""
    /\ out = <<>>

Init ==
    /\ stdin \in Inputs
    /\ MainStart("main")
    /\ HandIdle

Next ==
    \/ ReadStdin
    \/ GetFields
    \/ Validate
    \/ BuildDeck
    \/ MonteCarlo
    \/ TrashFilter
    \/ AnalyzeOpponent
    \/ ComputeEV
    \/ FinalDecision
    \/ Except
    \/ WriteOutput

Spec == Init /\ [][Next]_vars

-----------------------------------------------------------------------------
(***************************************************************************)
(* SpecHand: the hand operators applied to every table card and every two  *)
(* hole hands (in either order of their cards) of a pool of cards.         *)
(***************************************************************************)
CardPool == << <<"A", "H">>, <<"2", "H">>, <<"3", "H">>, <<"4", "H">>,
               <<"A", "D">>, <<"2", "D">>, <<"3", "D">>, <<"4", "D">>,
               <<"K", "S">>, <<"3", "S">>, <<"Q", "C">>, <<"2", "C">> >>
Pool == {CardPool[i] : i \in 1..MaxCards}
Hands == {<<a, b>> : a \in Pool, b \in Pool}

MainIdle ==
    /\ stdin = [kind |-> "empty", doc |-> EmptyRecord]
    /\ MainStart("off")

InitHand ==
    /\ MainIdle
    /\ hpc = "input"
    /\ my_cards \in Hands
    /\ opp_cards \in Hands
    /\ table_card \in Pool
    /\ straight = <<FALSE, 0>>
    /\ my_rank = -1
    /\ opp_rank = -1
    /\ result = -1
    /\ swapped = -1

\* lines 48-49 (and line 33 for my hand)
Classify ==
    /\ hpc = "input"
    /\ straight' = is_straight_3(RankValues(my_cards \o <<table_card>>)).val
    /\ my_rank' = hand_category(my_cards, table_card).val
    /\ opp_rank' = hand_category(opp_cards, table_card).val
    /\ hpc' = "classified"
    /\ UNCHANGED <<my_cards, opp_cards, table_card, result, swapped>>
    /\ UNCHANGED mainVars

\* lines 44-67, called both ways round
Compare ==
    /\ hpc = "classified"
    /\ result' = compare_hands_internal(my_cards, table_card, opp_cards).val
    /\ swapped' = compare_hands_internal(opp_cards, table_card, my_cards).val
    /\ hpc' = "compared"
    /\ UNCHANGED <<my_cards, opp_cards, table_card, straight, my_rank, opp_rank>>
    /\ UNCHANGED mainVars

NextHand ==
    \/ Classify
    \/ Compare

SpecHand == InitHand /\ [][NextHand]_vars

-----------------------------------------------------------------------------
(***************************************************************************)
(* The documented decision rule in exact arithmetic.  With equity =        *)
(* wins2 / (2 * sims) and fold_freq = f[1] / f[2], the expected values     *)
(* times 10 * sims * f[2] are integers.                                    *)
(***************************************************************************)
Decided == pc \in {"returned", "done"}
\* main has called decide_action(state)
Called == pc \notin {"main", "crashed", "off"}

NFold == GetCount(stats.fold)
NActions == GetCount(stats.fold) + GetCount(stats.call) + GetCount(stats.raise)

\* fold_freq as a fraction: clamp(n_fold / n_actions, 1/20, 19/20), or 3/10
DocFoldFreq ==
    IF NActions > 5
    THEN IF 20 * NFold < NActions THEN <<1, 20>>
         ELSE IF 20 * NFold > 19 * NActions THEN <<19, 20>>
         ELSE <<NFold, NActions>>
    ELSE <<3, 10>>

\* fold_freq * k + (1 - fold_freq) * (2 * k * equity - k), times 10 * sims * f[2]
DocEV(k) ==
    LET f == DocFoldFreq
    IN  10 * k * f[1] * sims + 10 * k * (f[2] - f[1]) * (wins2 - sims)
DocEVFold == 0 - 10 * sims * DocFoldFreq[2]
\* 0.10 on the same scale
DocMargin == sims * DocFoldFreq[2]

DocAction ==
    IF DocEV(3) > DocEV(2) + DocMargin /\ DocEV(3) > DocEVFold THEN "RAISE"
    ELSE IF DocEV(2) > DocEVFold + DocMargin THEN "CALL"
    ELSE "FOLD"

DocEVOf(a) == IF a = "RAISE" THEN DocEV(3) ELSE IF a = "CALL" THEN DocEV(2) ELSE DocEVFold
DocEVMax == MaxOf({DocEV(3), DocEV(2), DocEVFold})

\* the 800 trials ran and gave an equity of at least 0.35, resp. below 0.35
EquityAtLeast035 == trials = sims /\ fault = "" /\ 100 * wins2 >= 35 * 2 * sims
EquityBelow035 == trials = sims /\ fault = "" /\ 100 * wins2 < 35 * 2 * sims

\* your_hole or table_card of the request is empty or missing
HoleEmptyOrMissing ==
    state.your_hole.tag = "absent"
    \/ (state.your_hole.tag = "list" /\ state.your_hole.items = <<>>)
TableEmptyOrMissing ==
    state.table_card.tag = "absent"
    \/ (state.table_card.tag = "str" /\ state.table_card.chars = <<>>)

-----------------------------------------------------------------------------
(***************************************************************************)
(* The claims.                                                             *)
(***************************************************************************)

\* C1: for every content of standard input, main writes exactly one record
\* whose action is FOLD, CALL or RAISE; no run ends in an error instead.
C1_MainAlwaysWritesAnAction ==
    /\ pc # "crashed"
    /\ pc = "done" => Len(out) = 1 /\ out[1].action \in Actions

\* C2: when your_hole or table_card is empty or missing, decide_action returns
\* FOLD, whatever opponent_stats and total_rounds are, without raising and
\* before a deck is built or a trial is sampled.
C2_EmptyInputFolds ==
    (Called /\ state.isdict /\ (HoleEmptyOrMissing \/ TableEmptyOrMissing))
    => /\ pc \in {"decide", "validate", "returned", "done"}
       /\ ~deck.built
       /\ trials = 0
       /\ fault = ""
       /\ Decided => action = "FOLD"

C2_Witness ==
    /\ pc = "returned"
    /\ action = "FOLD"
    /\ state.your_hole = HoleList(<< <<"K", "D">>, <<"7", "S">> >>)
    /\ state.table_card.tag = "absent"
    /\ state.opponent_stats = StatsList
    /\ state.total_rounds = <<500>>

\* C3: whenever a step of decide_action raises, decide_action returns FOLD and
\* the exception does not reach main.
C3_FaultsFold ==
    fault \in {"AttributeError", "TypeError", "ValueError", "KeyError", "IndexError"}
    => /\ pc \in {"except", "returned", "done"}
       /\ Decided => action = "FOLD"

C3_Witness ==
    /\ pc = "done"
    /\ fault = "IndexError"
    /\ hole = HoleList(<< <<"K", "D">> >>)
    /\ out = <<[action |-> "FOLD"]>>

\* C4: when the equity of the 800 trials is below 0.35, decide_action returns
\* FOLD, whatever the opponent statistics are.
C4_TrashFilterFolds ==
    (Decided /\ EquityBelow035) => action = "FOLD"

C4_Witness ==
    /\ pc = "returned"
    /\ wins2 = 559
    /\ stats = StatsDict(<<100>>, <<0>>, <<0>>)
    /\ action = "FOLD"

\* C5: for every equity >= 0.35 and integer counts, the action returned equals
\* the documented rule (fold_freq clamped or 0.30, the three expected values,
\* RAISE / CALL / FOLD by the 0.10 margins).
C5_ActionIsDocumentedRule ==
    (Decided /\ EquityAtLeast035 /\ stats.tag = "dict") => action = DocAction

C7_CompareAntisymmetric ==
    hpc = "compared" => result \in {0, 1, 2} /\ result = 2 - swapped

C7_Witness ==
    /\ hpc = "compared"
    /\ my_rank = opp_rank
    /\ SetOf(my_cards) # SetOf(opp_cards)
    /\ result = 1
    /\ swapped = 1

\* the three rank values of a hand, descending; the wheel in a straight or a
\* straight flush counts as 3, 2, 1
TieBreak(cards, category) ==
    LET rv == RankValues(cards \o <<table_card>>)
        hi == MaxOf(SetOf(rv))
        lo == MinOf(SetOf(rv))
    IN  IF category \in {3, 5} /\ SetOf(rv) = {14, 2, 3} THEN <<3, 2, 1>>
        ELSE <<hi, rv[1] + rv[2] + rv[3] - hi - lo, lo>>

FirstDifference(a, b) ==
    IF a[1] # b[1] THEN (IF a[1] > b[1] THEN 2 ELSE 0)
    ELSE IF a[2] # b[2] THEN (IF a[2] > b[2] THEN 2 ELSE 0)
    ELSE IF a[3] # b[3] THEN (IF a[3] > b[3] THEN 2 ELSE 0)
    ELSE 1

\* C8: the higher category wins whatever the ranks; with equal categories the
\* first differing position of the two descending rank sequences decides (the
\* wheel of a straight or straight flush as 3, 2, 1), and a full tie is 0.5.
C8_CategoryThenRanks ==
    hpc = "compared"
    => /\ my_rank > opp_rank => result = 2
       /\ my_rank < opp_rank => result = 0
       /\ my_rank = opp_rank
             => result = FirstDifference(TieBreak(my_cards, my_rank),
                                         TieBreak(opp_cards, opp_rank))

C8_Witness ==
    /\ hpc = "compared"
    /\ my_rank = 3
    /\ opp_rank = 3
    /\ SetOf(RankValues(my_cards \o <<table_card>>)) = {14, 2, 3}
    /\ SetOf(RankValues(opp_cards \o <<table_card>>)) = {2, 3, 4}
    /\ result = 0

\* my hand (hole and table) holds the ranks Ace, 2, 3
IsWheel == SetOf(RankValues(my_cards \o <<table_card>>)) = {14, 2, 3}
OneSuit == Cardinality({c[2] : c \in SetOf(my_cards \o <<table_card>>)}) = 1

\* C9: a hand of the ranks Ace, 2, 3, in any order and any suits, is a straight
\* of high value 3: is_straight_3 gives (True, 3), hand_category 5 when the
\* suits are the same and 3 otherwise.
C9_WheelIsStraight ==
    (hpc \in {"classified", "compared"} /\ IsWheel)
    => /\ straight = <<TRUE, 3>>
       /\ my_rank = IF OneSuit THEN 5 ELSE 3

C9_Witness ==
    /\ hpc = "classified"
    /\ IsWheel
    /\ my_cards[1][1] = "3"
    /\ table_card[1] = "A"
    /\ my_rank = 5

\* C10: once the trash filter is passed, with counts that are non-negative
\* integers, fold_freq is within [0.05, 0.95] and decide_action returns RAISE
\* or CALL, never FOLD.
C10_NoFoldAfterFilter ==
    (EquityAtLeast035 /\ stats.tag = "dict")
    => /\ pc \in {"ev", "decision", "returned", "done"}
             => ~FLess(fold_freq, F005) /\ ~FLess(F095, fold_freq)
       /\ Decided => action \in {"RAISE", "CALL"}

C10_Witness ==
    /\ pc = "returned"
    /\ 100 * wins2 = 35 * 2 * sims
    /\ stats = StatsDict(<<0>>, <<>>, <<OtherActions>>)
    /\ action = "CALL"

====
